---------------------------- MODULE Spec2Model ----------------------------
(***************************************************************************)
(* Model of src/ios/Classes/ecdsa.c (curve-point engine, scalar            *)
(* multiplication, public-key recovery, DER-to-raw decoding) over the      *)
(* big-integer interface declared in src/ios/Classes/bignum.h.             *)
(*                                                                         *)
(* Word geometry.  The source stores a 256-bit integer in 8 limbs of 30    *)
(* bits and a top limb of 16 bits, held in 32-bit words, and works on a    *)
(* 256-bit curve.  Exhaustive checking needs a curve whose group fits TLC, *)
(* and the scalar recoding is only correct when the group order is close   *)
(* to 2^(scalar width), so the geometry is scaled as a whole and every     *)
(* number of the source that depends on it is derived from four named      *)
(* constants:                                                              *)
(*     source   30-bit limbs, 8 low limbs, 16-bit top limb, 32-bit words   *)
(*     model    LimbBits,     NLow,        TopBits,         WordBits       *)
(* The relations of the source are kept: WordBits = LimbBits + 2, the top  *)
(* limb is narrower than a low limb, LimbBits is not a multiple of the     *)
(* window width 4, and the scalar width NLow*LimbBits + TopBits is a       *)
(* multiple of 4.  The window width (4), the digit range (15), the 5-bit   *)
(* window mask (31) and the 8-entry tables are those of the source.        *)
(* I/O buffers of 32 bytes become buffers of BufLen digits of ByteBits     *)
(* bits.  The DER decoder does not depend on the geometry and is modelled  *)
(* with the source's own sizes (bytes, 32, 64).                            *)
(*                                                                         *)
(* bignum.c and the curve parameter table are not part of the sources; the *)
(* bn_* operators and the curve constants below follow the specification   *)
(* (section 4.1, section 3) and the comments of ecdsa.c that state what    *)
(* the callers rely on.                                                    *)
(***************************************************************************)
EXTENDS Integers, Sequences, FiniteSets, TLC

\* ------------------------------------------------------------------------
\* Word geometry (bignum.h:17-21)
\* ------------------------------------------------------------------------
LimbBits == 7
NLow == 1
TopBits == 5
WordBits == 9
ByteBits == 4

RECURSIVE Pow2(_)
Pow2(n) == IF n = 0 THEN 1 ELSE 2 * Pow2(n - 1)

ScalarBits == NLow * LimbBits + TopBits      \* 256 in the source
NDigits == ScalarBits \div 4                 \* 64 in the source
BufLen == ScalarBits \div ByteBits           \* 32 in the source
LimbMask == Pow2(LimbBits) - 1               \* 0x3fffffff
TopMask == Pow2(TopBits) - 1                 \* 0xffff
TopLimit == Pow2(TopBits + 1)                \* 0x20000
WordMod == Pow2(WordBits)                    \* 2^32
AllOnes == WordMod - 1                       \* 0xffffffff
TwoW == Pow2(ScalarBits)                     \* 2^256

\* uint32_t arithmetic: every result is reduced modulo the word size.
U32(x) == x % WordMod

RECURSIVE BitAnd(_, _)
BitAnd(x, y) ==
  IF x = 0 \/ y = 0 THEN 0
  ELSE 2 * BitAnd(x \div 2, y \div 2) + (IF x % 2 = 1 /\ y % 2 = 1 THEN 1 ELSE 0)

RECURSIVE BitOr(_, _)
BitOr(x, y) ==
  IF x = 0 THEN y
  ELSE IF y = 0 THEN x
  ELSE 2 * BitOr(x \div 2, y \div 2) + (IF x % 2 = 1 \/ y % 2 = 1 THEN 1 ELSE 0)

RECURSIVE BitXor(_, _)
BitXor(x, y) ==
  IF x = 0 THEN y
  ELSE IF y = 0 THEN x
  ELSE 2 * BitXor(x \div 2, y \div 2) + (IF x % 2 # y % 2 THEN 1 ELSE 0)

BitNot(x) == AllOnes - x
Shl(x, n) == U32(x * Pow2(n))
Shr(x, n) == x \div Pow2(n)

\* ------------------------------------------------------------------------
\* bignum256 (bignum.h:19-21): limbs val[0..NLow], least significant first.
\* Field elements are carried by value; the routines of ecdsa.c that touch
\* val[] directly go through bn_limbs / bn_value.
\* ------------------------------------------------------------------------
LimbIdx == 0..NLow

RECURSIVE SumLimbs(_, _)
SumLimbs(l, j) ==
  IF j > NLow THEN 0 ELSE l[j] * Pow2(LimbBits * j) + SumLimbs(l, j + 1)

bn_value(l) == SumLimbs(l, 0)

bn_limbs(x) ==
  [j \in LimbIdx |->
     IF j < NLow THEN (x \div Pow2(LimbBits * j)) % Pow2(LimbBits)
     ELSE x \div Pow2(LimbBits * NLow)]

ZeroLimbs == [j \in LimbIdx |-> 0]

\* ------------------------------------------------------------------------
\* Limb-integer engine (bignum.h:72-130; bodies after spec section 4.1)
\* ------------------------------------------------------------------------
bn_is_zero(a) == a = 0
bn_is_less(a, b) == a < b
bn_is_equal(a, b) == a = b
bn_is_odd(a) == a % 2 = 1

\* a += b, limbs normalized, no reduction
bn_add(a, b) == a + b
\* res = a - b, for a >= b
bn_subtract(a, b) == a - b
\* a <<= 1
bn_lshift(a) == 2 * a
\* fast partial reduction: subtracts the multiple of the modulus given by the
\* bits above the scalar width; a positive multiple of the modulus is
\* normalized to the modulus itself (ecdsa.c:277-280)
bn_fast_mod(x, prime) == x - (x \div TwoW) * prime
\* full reduction of a partly reduced value
bn_mod(x, prime) == IF x < prime THEN x ELSE x - prime
\* a += b, partly reduced
bn_addmod(a, b, prime) == bn_fast_mod(a + b, prime)
\* res = a - b, kept non-negative by a bias of twice the modulus
bn_subtractmod(a, b, prime) == a + 2 * prime - b
\* a -= b for a small b, kept non-negative by a bias of the modulus
bn_subi(a, b, prime) == a + prime - b
\* x *= k for a small k, partly reduced
bn_mult_k(x, k, prime) == bn_fast_mod(k * x, prime)
\* x /= 2 modulo prime
bn_mult_half(x, prime) == (x + (IF x % 2 = 1 THEN prime ELSE 0)) \div 2
\* x = k * x modulo prime
bn_multiply(k, x, prime) == (k * x) % prime
\* res = cond ? truecase : falsecase
bn_cmov(cond, truecase, falsecase) == IF cond THEN truecase ELSE falsecase

RECURSIVE ModExp(_, _, _)
ModExp(x, e, m) ==
  IF e = 0 THEN 1 % m
  ELSE CHOOSE r \in { IF e % 2 = 1 THEN (((h * h) % m) * (x % m)) % m ELSE (h * h) % m :
                        h \in {ModExp(x, e \div 2, m)} } : TRUE

\* modular inverse by exponentiation with modulus - 2 (0 maps to 0)
bn_inverse(x, prime) == ModExp(x, prime - 2, prime)
\* modular square root for primes = 3 mod 4, exponentiation by (prime+1)/4;
\* the result is not validated
bn_sqrt(x, prime) == ModExp(x, (prime + 1) \div 4, prime)

\* big-endian buffers of BufLen digits of ByteBits bits
RECURSIVE ReadBE(_, _)
ReadBE(buf, n) ==
  IF n = 0 THEN 0 ELSE ReadBE(buf, n - 1) * Pow2(ByteBits) + buf[n]

bn_read_be(buf) == ReadBE(buf, BufLen)

bn_write_be(x) ==
  [i \in 1..BufLen |-> (x \div Pow2(ByteBits * (BufLen - i))) % Pow2(ByteBits)]

\* ------------------------------------------------------------------------
\* Curve parameters (ecdsa_curve): y^2 = x^3 + a*x + b over the prime field,
\* a group of prime order just below the prime and just below 2^ScalarBits.
\* ------------------------------------------------------------------------
Prime == 3907
Order == 3847
CurveA == 0
CurveB == 2
Gx == 2
Gy == 2903
G == [x |-> Gx, y |-> Gy]

\* ------------------------------------------------------------------------
\* Affine points (ecdsa.c:17-148)
\* ------------------------------------------------------------------------
Infinity == [x |-> 0, y |-> 0]

point_copy(cp1) == cp1

point_set_infinity == Infinity

point_is_infinity(p) == bn_is_zero(p.x) /\ bn_is_zero(p.y)

point_is_equal(p, q) == bn_is_equal(p.x, q.x) /\ bn_is_equal(p.y, q.y)

point_is_negative_of(p, q) ==
  IF ~bn_is_equal(p.x, q.x) THEN FALSE
  ELSE IF bn_is_zero(p.y) THEN FALSE
  ELSE ~bn_is_equal(p.y, q.y)

\* cp = cp + cp
point_double(cp) ==
  IF point_is_infinity(cp) THEN cp
  ELSE IF bn_is_zero(cp.y) THEN point_set_infinity
  ELSE
    LET lambda0 == bn_inverse(bn_mult_k(cp.y, 2, Prime), Prime)
        xr0 == bn_subi(bn_mult_k(bn_multiply(cp.x, cp.x, Prime), 3, Prime),
                       -CurveA, Prime)
        lambda == bn_multiply(xr0, lambda0, Prime)
        \* xr = lambda^2 - 2*x
        xr == bn_mod(bn_fast_mod(
                bn_subtractmod(bn_multiply(lambda, lambda, Prime),
                               bn_lshift(cp.x), Prime), Prime), Prime)
        \* yr = lambda (x - xr) - y
        yr == bn_mod(bn_fast_mod(
                bn_subtractmod(
                  bn_multiply(lambda, bn_subtractmod(cp.x, xr, Prime), Prime),
                  cp.y, Prime), Prime), Prime)
    IN [x |-> xr, y |-> yr]

\* mutant: an infinite cp2 goes through the chord formula
point_add_no_copy(cp1, cp2) ==
  IF point_is_infinity(cp1) THEN cp2
  ELSE IF point_is_equal(cp1, cp2) THEN point_double(cp2)
  ELSE IF point_is_negative_of(cp1, cp2) THEN point_set_infinity
  ELSE
    LET inv == bn_inverse(bn_subtractmod(cp2.x, cp1.x, Prime), Prime)
        lambda == bn_multiply(inv, bn_subtractmod(cp2.y, cp1.y, Prime), Prime)
        xr == bn_mod(bn_fast_mod(
                bn_subtractmod(bn_multiply(lambda, lambda, Prime),
                               bn_addmod(cp1.x, cp2.x, Prime), Prime),
                Prime), Prime)
        yr == bn_mod(bn_fast_mod(
                bn_subtractmod(
                  bn_multiply(lambda, bn_subtractmod(cp1.x, xr, Prime), Prime),
                  cp1.y, Prime), Prime), Prime)
    IN [x |-> xr, y |-> yr]

\* cp2 = cp1 + cp2 (the new value of cp2)
point_add(cp1, cp2) ==
  IF point_is_infinity(cp1) THEN cp2
  ELSE IF point_is_infinity(cp2) THEN point_copy(cp1)
  ELSE IF point_is_equal(cp1, cp2) THEN point_double(cp2)
  ELSE IF point_is_negative_of(cp1, cp2) THEN point_set_infinity
  ELSE
    LET inv == bn_inverse(bn_subtractmod(cp2.x, cp1.x, Prime), Prime)
        lambda == bn_multiply(inv, bn_subtractmod(cp2.y, cp1.y, Prime), Prime)
        \* xr = lambda^2 - x1 - x2
        xr == bn_mod(bn_fast_mod(
                bn_subtractmod(bn_multiply(lambda, lambda, Prime),
                               bn_addmod(cp1.x, cp2.x, Prime), Prime),
                Prime), Prime)
        \* yr = lambda (x1 - xr) - y1
        yr == bn_mod(bn_fast_mod(
                bn_subtractmod(
                  bn_multiply(lambda, bn_subtractmod(cp1.x, xr, Prime), Prime),
                  cp1.y, Prime), Prime), Prime)
    IN [x |-> xr, y |-> yr]

\* ------------------------------------------------------------------------
\* conditional_negate (ecdsa.c:150-165), on the limbs of a.
\* NegLimb is one round of the carry chain: tmp, then the limb it stores.
\* ------------------------------------------------------------------------
\* mutant: the modulus is added once, not twice
NegTmp_once(tmp, aj, pj) == U32(tmp + LimbMask + pj - aj)

NegTmp(tmp, aj, pj) == U32(tmp + LimbMask + 2 * pj - aj)

NegLimb(tmp, aj, cond) ==
  BitOr(BitAnd(BitAnd(tmp, LimbMask), cond), BitAnd(aj, BitNot(cond)))

\* the value of tmp before the round of limb j
RECURSIVE NegCarry(_, _, _)
NegCarry(a, p, j) ==
  IF j = 0 THEN 1
  ELSE Shr(NegTmp(NegCarry(a, p, j - 1), a[j - 1], p[j - 1]), LimbBits)

\* the assertions of lines 156 and 164
conditional_negate_ok(a) == a[NLow] < TopLimit

conditional_negate_limbs(cond, a, prime) ==
  [j \in LimbIdx |-> NegLimb(NegTmp(NegCarry(a, prime, j), a[j], prime[j]), a[j], cond)]

\* applied to a field element carried by value
conditional_negate(cond, a, prime) ==
  bn_value(conditional_negate_limbs(cond, bn_limbs(a), bn_limbs(prime)))

\* ------------------------------------------------------------------------
\* Jacobian points (ecdsa.c:167-400)
\* ------------------------------------------------------------------------
ZeroJacobian == [x |-> 0, y |-> 0, z |-> 0]

\* One round of generate_k_random's loop (ecdsa.c:174-178): the candidate
\* drawn from NLow + 1 words of the random source.
random_candidate(words) ==
  [j \in LimbIdx |->
     IF j < NLow THEN BitAnd(words[j], LimbMask) ELSE BitAnd(words[j], TopMask)]

\* mutant: the range check is lost, only zero is rejected
random_rejected_zero_only(k, prime) == bn_is_zero(k)

\* the loop condition of generate_k_random (ecdsa.c:180): draw again
random_rejected(k, prime) == bn_is_zero(k) \/ ~bn_is_less(k, prime)

\* mutant: y is scaled by z^2, as x is
curve_to_jacobian_square_y(p, z, prime) ==
  [x |-> bn_multiply(p.x, bn_multiply(z, z, prime), prime),
   y |-> bn_multiply(p.y, bn_multiply(z, z, prime), prime),
   z |-> z]

\* curve_to_jacobian after the draw of z (ecdsa.c:187-195)
curve_to_jacobian(p, z, prime) ==
  LET x1 == bn_multiply(z, z, prime)        \* x = z^2
      y1 == bn_multiply(z, x1, prime)       \* y = z^3
  IN [x |-> bn_multiply(p.x, x1, prime),
      y |-> bn_multiply(p.y, y1, prime),
      z |-> z]

jacobian_to_curve(jp, prime) ==
  LET y0 == bn_inverse(jp.z, prime)         \* z^-1
      x1 == bn_multiply(y0, y0, prime)      \* z^-2
      y1 == bn_multiply(x1, y0, prime)      \* z^-3
      x2 == bn_multiply(jp.x, x1, prime)
      y2 == bn_multiply(jp.y, y1, prime)
  IN [x |-> bn_mod(x2, prime), y |-> bn_mod(y2, prime)]

\* p2 = p1 + p2 (the new value of p2)
point_jacobian_add(p1, p2) ==
  LET xz0 == bn_multiply(p2.z, p2.z, Prime)                 \* z2^2
      yz0 == bn_multiply(xz0, p2.z, Prime)                  \* z2^3
      az == bn_mult_k(bn_multiply(xz0, xz0, Prime), -CurveA, Prime)
      xz1 == bn_multiply(p1.x, xz0, Prime)                  \* x1' = x1*z2^2
      h0 == bn_fast_mod(bn_subtractmod(xz1, p2.x, Prime), Prime)
      xz == bn_add(xz1, p2.x)                               \* x1' + x2
      is_doubling == bn_is_equal(h0, Prime)
      yz1 == bn_multiply(p1.y, yz0, Prime)                  \* y1' = y1*z2^3
      r0 == bn_subtractmod(yz1, p2.y, Prime)                \* y1' - y2
      yz == bn_add(yz1, p2.y)                               \* y1' + y2
      r2a == bn_mult_k(bn_multiply(p2.x, p2.x, Prime), 3, Prime)
      r2 == IF CurveA # 0 THEN bn_subtractmod(r2a, az, Prime) ELSE r2a
      r == bn_cmov(is_doubling, r2, r0)
      h == bn_cmov(is_doubling, yz, h0)
      hsq == bn_multiply(h, h, Prime)                       \* h^2
      hcb == bn_multiply(hsq, h, Prime)                     \* h^3
      hsqx == bn_multiply(xz, hsq, Prime)                   \* h^2 (x1 + x2)
      hcby == bn_multiply(yz, hcb, Prime)                   \* h^3 (y1 + y2)
      z3 == bn_multiply(h, p2.z, Prime)
      x3 == bn_fast_mod(bn_subtractmod(bn_multiply(r, r, Prime), hsqx, Prime),
                        Prime)
      y3a == bn_subtractmod(bn_subtractmod(hsqx, x3, Prime), x3, Prime)
      y3b == bn_subtractmod(bn_multiply(r, y3a, Prime), hcby, Prime)
      y3 == bn_fast_mod(bn_mult_half(y3b, Prime), Prime)
  IN [x |-> x3, y |-> y3, z |-> z3]

point_jacobian_double(p) ==
  LET m0 == bn_mult_k(bn_multiply(p.x, p.x, Prime), 3, Prime)
      z2 == bn_multiply(p.z, p.z, Prime)
      az4 == bn_mult_k(bn_multiply(z2, z2, Prime), -CurveA, Prime)
      m == bn_mult_half(bn_subtractmod(m0, az4, Prime), Prime)
      msq == bn_multiply(m, m, Prime)
      ysq == bn_multiply(p.y, p.y, Prime)
      xysq == bn_multiply(ysq, p.x, Prime)
      z3 == bn_multiply(p.y, p.z, Prime)
      x3 == bn_fast_mod(
              bn_subtractmod(msq, bn_fast_mod(bn_lshift(xysq), Prime), Prime),
              Prime)
      y3 == bn_fast_mod(
              bn_subtractmod(
                bn_multiply(m, bn_subtractmod(xysq, x3, Prime), Prime),
                bn_multiply(ysq, ysq, Prime), Prime), Prime)
  IN [x |-> x3, y |-> y3, z |-> z3]

\* ------------------------------------------------------------------------
\* Precomputed table of the base point (ecdsa_curve.cp):
\* cp[i][j] = (2j+1) * 16^i * G, for i in [0, NDigits), j in [0, 8)
\* ------------------------------------------------------------------------
RECURSIVE CpBase(_)
CpBase(i) ==
  IF i = 0 THEN G
  ELSE point_double(point_double(point_double(point_double(CpBase(i - 1)))))

RECURSIVE CpEntry(_, _)
CpEntry(base, j) ==
  IF j = 0 THEN base ELSE point_add(point_double(base), CpEntry(base, j - 1))

curve_cp == [i \in 0..(NDigits - 1) |-> [j \in 0..7 |-> CpEntry(CpBase(i), j)]]

\* ------------------------------------------------------------------------
\* Scalar recoding shared by point_multiply (ecdsa.c:416-436) and
\* scalar_multiply (ecdsa.c:534-553): a = k + 2^ScalarBits, minus the order
\* when k is even, computed limb by limb with the carry in tmp.
\* ------------------------------------------------------------------------
is_even_mask(k) == U32(BitAnd(k[0], 1) - 1)

RecodeTmp(tmp, kj, oj, is_even) == U32(tmp + LimbMask + kj - BitAnd(oj, is_even))

RECURSIVE RecodeCarry(_, _, _)
RecodeCarry(k, order, j) ==
  IF j = 0 THEN 1
  ELSE Shr(RecodeTmp(RecodeCarry(k, order, j - 1), k[j - 1], order[j - 1],
                     is_even_mask(k)), LimbBits)

recode_scalar(k, order) ==
  [j \in LimbIdx |->
     IF j < NLow
     THEN BitAnd(RecodeTmp(RecodeCarry(k, order, j), k[j], order[j],
                           is_even_mask(k)), LimbMask)
     ELSE U32(RecodeCarry(k, order, j) + TopMask + k[j]
              - BitAnd(order[j], is_even_mask(k)))]

is_non_zero(k) == \E j \in LimbIdx : k[j] # 0

\* pmult[i] = (2*i+1) * p (ecdsa.c:459-466)
RECURSIVE PmultEntry(_, _)
PmultEntry(p, i) ==
  IF i = 0 THEN p ELSE point_add(PmultEntry(p, i - 1), point_double(p))

pmult_table(p) == [i \in 0..7 |-> PmultEntry(p, i)]

\* sign and table index of a 5-bit window (ecdsa.c:505-508, 479-481)
window_sign(bits) == U32(Shr(bits, 4) - 1)
\* mutant: the window is not flipped when its sign is negative
window_index_no_flip(bits) == BitAnd(bits, 15)

window_index(bits) == BitAnd(BitXor(bits, window_sign(bits)), 15)

\* mutant: the shift drops the bits that cross from the next limb
shift_scalar_nocarry(a) == [j \in LimbIdx |-> Shr(a[j], 4)]

\* a >>= 4 across the limbs (ecdsa.c:589-592)
shift_scalar(a) ==
  [j \in LimbIdx |->
     IF j < NLow
     THEN BitOr(Shr(a[j], 4), Shl(BitAnd(a[j + 1], 15), LimbBits - 4))
     ELSE Shr(a[j], 4)]

Dbl4(j) ==
  point_jacobian_double(point_jacobian_double(
    point_jacobian_double(point_jacobian_double(j))))

\* ------------------------------------------------------------------------
\* One call of point_multiply / scalar_multiply as a machine
\*   m = [f |-> the call's frame, a |-> static a, jres |-> static jres]
\* cut at the places where the call reads or writes its static storage.
\* ------------------------------------------------------------------------
PM == "point_multiply"
SM == "scalar_multiply"
Unset == [x |-> Prime, y |-> Prime]      \* *res before the call writes it

NewFrame(fn, k, p) ==
  [fn |-> fn, k |-> k, p |-> p, pc |-> "entry", nz |-> FALSE, i |-> 0,
   aptr |-> 0, abits |-> 0, ashift |-> 0, bits |-> 0, sign |-> 0,
   pmult |-> <<>>, z |-> 0, res |-> Unset]

\* ecdsa.c:409-436 and 530-553
mul_entry(m) ==
  LET k == bn_limbs(m.f.k)
      a == recode_scalar(k, bn_limbs(Order))
  IN IF ~bn_is_less(m.f.k, Order) \/ BitAnd(a[0], 1) = 0
     THEN [m EXCEPT !.f.pc = "abort"]
     ELSE [m EXCEPT !.a = a, !.f.nz = is_non_zero(k), !.f.pc = "check"]

\* ecdsa.c:438-481 and 555-583
mul_check(m) ==
  IF ~m.f.nz
  THEN [m EXCEPT !.f.res = point_set_infinity, !.f.pc = "done"]
  ELSE IF m.f.fn = PM
  THEN LET abits == m.a[NLow]
           bits == Shr(abits, TopBits - 4)
       IN [m EXCEPT !.f.pmult = pmult_table(m.f.p),
                    !.f.aptr = NLow, !.f.abits = abits,
                    !.f.ashift = TopBits - 4,
                    !.f.sign = window_sign(bits),
                    !.f.bits = window_index(bits),
                    !.f.pc = "draw"]
  ELSE [m EXCEPT !.f.bits = window_index(BitAnd(m.a[0], 31)), !.f.pc = "draw"]

\* ecdsa.c:482 and 584: one round of generate_k_random on jres.z, and the
\* rest of curve_to_jacobian once a candidate is accepted
mul_draw(m, words) ==
  LET z == bn_value(random_candidate(words))
      p == IF m.f.fn = PM THEN m.f.pmult[Shr(m.f.bits, 1)]
           ELSE curve_cp[0][Shr(m.f.bits, 1)]
  IN IF random_rejected(z, Prime)
     THEN [m EXCEPT !.jres.z = z]
     ELSE [m EXCEPT !.jres = curve_to_jacobian(p, z, Prime), !.f.z = z,
                    !.f.i = IF m.f.fn = PM THEN NDigits - 2 ELSE 1,
                    !.f.pc = IF NDigits >= 2 THEN "loop" ELSE "final"]

\* ecdsa.c:483-517, one iteration
pm_round(m) ==
  LET j4 == Dbl4(m.jres)
      ashift0 == m.f.ashift - 4
      cross == ashift0 < 0
      aptr == IF cross THEN m.f.aptr - 1 ELSE m.f.aptr
      abits == IF cross THEN m.a[aptr] ELSE m.f.abits
      ashift == IF cross THEN ashift0 + LimbBits ELSE ashift0
      bits0 == IF cross
               THEN BitOr(Shl(m.f.abits, -ashift0), Shr(abits, ashift))
               ELSE Shr(m.f.abits, ashift0)
      bits == BitAnd(bits0, 31)
      nsign == window_sign(bits)
      idx == window_index(bits)
      jn == [j4 EXCEPT !.z = conditional_negate(BitXor(m.f.sign, nsign), j4.z, Prime)]
  IN IF ~conditional_negate_ok(bn_limbs(j4.z)) \/ ~conditional_negate_ok(bn_limbs(jn.z))
     THEN [m EXCEPT !.f.pc = "abort"]
     ELSE [m EXCEPT !.jres = point_jacobian_add(m.f.pmult[Shr(idx, 1)], jn),
                    !.f.aptr = aptr, !.f.abits = abits, !.f.ashift = ashift,
                    !.f.bits = idx, !.f.sign = nsign,
                    !.f.i = m.f.i - 1,
                    !.f.pc = IF m.f.i - 1 >= 0 THEN "loop" ELSE "final"]

\* ecdsa.c:585-605, one iteration
sm_round(m) ==
  LET a == shift_scalar(m.a)
      lowbits == window_index(BitAnd(a[0], 31))
      jn == [m.jres EXCEPT !.y = conditional_negate(U32(BitAnd(lowbits, 1) - 1),
                                                    m.jres.y, Prime)]
  IN IF ~conditional_negate_ok(bn_limbs(m.jres.y)) \/ ~conditional_negate_ok(bn_limbs(jn.y))
     THEN [m EXCEPT !.a = a, !.f.pc = "abort"]
     ELSE [m EXCEPT !.a = a,
                    !.jres = point_jacobian_add(curve_cp[m.f.i][Shr(lowbits, 1)], jn),
                    !.f.bits = lowbits,
                    !.f.i = m.f.i + 1,
                    !.f.pc = IF m.f.i + 1 < NDigits THEN "loop" ELSE "final"]

mul_round(m) == IF m.f.fn = PM THEN pm_round(m) ELSE sm_round(m)

\* ecdsa.c:518-521 and 606-609
mul_final(m) ==
  LET jn == IF m.f.fn = PM
            THEN [m.jres EXCEPT !.z = conditional_negate(m.f.sign, m.jres.z, Prime)]
            ELSE [m.jres EXCEPT !.y = conditional_negate(
                                        U32(BitAnd(Shr(m.a[0], 4), 1) - 1),
                                        m.jres.y, Prime)]
      old == IF m.f.fn = PM THEN m.jres.z ELSE m.jres.y
      new == IF m.f.fn = PM THEN jn.z ELSE jn.y
  IN IF ~conditional_negate_ok(bn_limbs(old)) \/ ~conditional_negate_ok(bn_limbs(new))
     THEN [m EXCEPT !.f.pc = "abort"]
     ELSE [m EXCEPT !.f.res = jacobian_to_curve(jn, Prime),
                    !.a = ZeroLimbs, !.jres = ZeroJacobian,          \* memzero
                    !.f.pc = "done"]

\* A whole call running alone on zeroed static storage, blinded with the
\* accepted draw `words`.
mul_step(m, words) ==
  CASE m.f.pc = "entry" -> mul_entry(m)
    [] m.f.pc = "check" -> mul_check(m)
    [] m.f.pc = "draw" -> mul_draw(m, words)
    [] m.f.pc = "loop" -> mul_round(m)
    [] m.f.pc = "final" -> mul_final(m)
    [] OTHER -> m

\* (each step's result is bound once, as a value, before the next step reads it)
RECURSIVE RunAlone(_, _)
RunAlone(m, words) ==
  IF m.f.pc \in {"done", "abort"} THEN m
  ELSE CHOOSE r \in { RunAlone(n, words) : n \in {mul_step(m, words)} } : TRUE

NewMachine(fn, k, p) == [f |-> NewFrame(fn, k, p), a |-> ZeroLimbs, jres |-> ZeroJacobian]

point_multiply(k, p, words) ==
  (CHOOSE r \in { RunAlone(m, words) : m \in {NewMachine(PM, k, p)} } : TRUE).f.res
scalar_multiply(k, words) ==
  (CHOOSE r \in { RunAlone(m, words) : m \in {NewMachine(SM, k, G)} } : TRUE).f.res

\* ------------------------------------------------------------------------
\* State
\* ------------------------------------------------------------------------
VARIABLES
  threads,      \* the frame of each in-flight call of point/scalar_multiply
  s_a,          \* static CONFIDENTIAL bignum256 a, one per function
  s_jres,       \* static CONFIDENTIAL jacobian_curve_point jres, one per function
  sched,        \* "seq": the calls follow each other; "par": one thread each
  der,          \* ecdsa_der_to_sig: the input buffer
  sig,          \* ecdsa_der_to_sig: the 64-byte output buffer
  der_result,   \* ecdsa_der_to_sig: the value returned
  der_pc,
  neg_in,       \* conditional_negate: cond, a and prime at the call
  neg_a,        \* conditional_negate: the limbs of a
  neg_pc,
  rec_in,       \* ecdsa_recover_pub_from_sig: sig, digest, recid, pub_key at entry
  pub_key,      \* ecdsa_recover_pub_from_sig: the output buffer
  rec_result,   \* ecdsa_recover_pub_from_sig: the value returned
  rec_pc,
  val_in,       \* ecdsa_validate_pubkey: *pub at the call
  val_pub,      \* ecdsa_validate_pubkey: *pub
  val_result,   \* ecdsa_validate_pubkey: the value returned
  val_pc,
  add_in,       \* point_add: *cp1 and *cp2 at the call
  add_cp2,      \* point_add: *cp2
  add_pc,
  blind_in,     \* curve_to_jacobian: *p at the call
  blind_jp,     \* curve_to_jacobian: *jp
  blind_out,    \* jacobian_to_curve: *p
  blind_pc

mulVars == <<threads, s_a, s_jres, sched>>
derVars == <<der, sig, der_result, der_pc>>
negVars == <<neg_in, neg_a, neg_pc>>
recVars == <<rec_in, pub_key, rec_result, rec_pc>>
valVars == <<val_in, val_pub, val_result, val_pc>>
addVars == <<add_in, add_cp2, add_pc>>
blindVars == <<blind_in, blind_jp, blind_out, blind_pc>>
vars == <<threads, s_a, s_jres, sched, der, sig, der_result, der_pc,
          neg_in, neg_a, neg_pc, rec_in, pub_key, rec_result, rec_pc,
          val_in, val_pub, val_result, val_pc, add_in, add_cp2, add_pc,
          blind_in, blind_jp, blind_out, blind_pc>>

MulIdle == threads = <<>> /\ s_a = <<>> /\ s_jres = <<>> /\ sched = "none"
DerIdle == der = <<>> /\ sig = <<>> /\ der_result = 0 /\ der_pc = "none"
NegIdle == neg_in = <<>> /\ neg_a = <<>> /\ neg_pc = "none"
RecIdle == rec_in = <<>> /\ pub_key = <<>> /\ rec_result = 0 /\ rec_pc = "none"
ValIdle == val_in = <<>> /\ val_pub = <<>> /\ val_result = 0 /\ val_pc = "none"
AddIdle == add_in = <<>> /\ add_cp2 = <<>> /\ add_pc = "none"
BlindIdle == blind_in = <<>> /\ blind_jp = <<>> /\ blind_out = <<>> /\ blind_pc = "none"

\* ------------------------------------------------------------------------
\* The random source (random32, rand.h): the draws the model offers to one
\* round of generate_k_random, one word per limb.  JunkBits sets a bit above
\* the mask of every word.
\* ------------------------------------------------------------------------
WordsOf(x, junk) ==
  [j \in LimbIdx |->
     bn_limbs(x)[j] + (IF junk THEN (IF j < NLow THEN Pow2(LimbBits) ELSE Pow2(TopBits))
                       ELSE 0)]

RandomDraws ==
  { WordsOf(0, FALSE), WordsOf(1, TRUE), WordsOf(Order, FALSE),
    WordsOf(Prime - 1, FALSE), WordsOf(Prime, FALSE), WordsOf(TwoW - 1, TRUE) }

\* ------------------------------------------------------------------------
\* Scalar multiplication: the calls of the threads, step by step
\* ------------------------------------------------------------------------
Threads == {1, 2}
Functions == {PM, SM}

Machine(t) ==
  [f |-> threads[t], a |-> s_a[threads[t].fn], jres |-> s_jres[threads[t].fn]]

Store(t, m) ==
  /\ threads' = [threads EXCEPT ![t] = m.f]
  /\ s_a' = [s_a EXCEPT ![m.f.fn] = m.a]
  /\ s_jres' = [s_jres EXCEPT ![m.f.fn] = m.jres]
  /\ UNCHANGED <<sched, derVars, negVars, recVars, valVars, addVars, blindVars>>

Returned(t) == threads[t].pc \in {"done", "abort"}

\* in "seq" the second call starts when the first has returned
CanRun(t) == sched = "par" \/ t = 1 \/ Returned(1)

MulEntry(t) ==
  /\ CanRun(t) /\ threads[t].pc = "entry"
  /\ Store(t, mul_entry(Machine(t)))

MulCheck(t) ==
  /\ CanRun(t) /\ threads[t].pc = "check"
  /\ Store(t, mul_check(Machine(t)))

MulDraw(t) ==
  /\ CanRun(t) /\ threads[t].pc = "draw"
  /\ \E words \in RandomDraws : Store(t, mul_draw(Machine(t), words))

MulRound(t) ==
  /\ CanRun(t) /\ threads[t].pc = "loop"
  /\ Store(t, mul_round(Machine(t)))

MulFinal(t) ==
  /\ CanRun(t) /\ threads[t].pc = "final"
  /\ Store(t, mul_final(Machine(t)))

MulNext ==
  \E t \in Threads :
    MulEntry(t) \/ MulCheck(t) \/ MulDraw(t) \/ MulRound(t) \/ MulFinal(t)

\* static storage is zero-initialized
MulStatics ==
  /\ s_a = [fn \in Functions |-> ZeroLimbs]
  /\ s_jres = [fn \in Functions |-> ZeroJacobian]

\* point_multiply(k, p) followed by scalar_multiply(k), for every scalar
MulPoints == {G}

MulInit ==
  /\ MulStatics
  /\ sched = "seq"
  /\ \E k \in 0..(Order - 1), p \in MulPoints :
       threads = [t \in Threads |-> IF t = 1 THEN NewFrame(PM, k, p)
                                    ELSE NewFrame(SM, k, G)]
  /\ DerIdle /\ NegIdle /\ RecIdle /\ ValIdle /\ AddIdle /\ BlindIdle

SpecMul == MulInit /\ [][MulNext]_vars

\* two threads in the same function at once, each with its own scalar
ConcScalars == {2, Order - 1}

ConcInit ==
  /\ MulStatics
  /\ sched = "par"
  /\ \E fn \in Functions, k1 \in ConcScalars, k2 \in ConcScalars :
       threads = [t \in Threads |-> NewFrame(fn, IF t = 1 THEN k1 ELSE k2, G)]
  /\ DerIdle /\ NegIdle /\ RecIdle /\ ValIdle /\ AddIdle /\ BlindIdle

SpecConc == ConcInit /\ [][MulNext]_vars

\* ------------------------------------------------------------------------
\* Claims on scalar multiplication
\* ------------------------------------------------------------------------
Blinded(t) ==
  threads[t].pc \in {"loop", "final"} \/ (threads[t].pc = "done" /\ threads[t].nz)

\* C6 (as claimed): at every return of point_multiply or scalar_multiply,
\* the early return for k = 0 included, the static a and jres of the function
\* are all-zero.
C6_WipedAtEveryReturn ==
  \A t \in DOMAIN threads :
    (sched = "seq" /\ threads[t].pc = "done")
      => /\ s_a[threads[t].fn] = ZeroLimbs
         /\ s_jres[threads[t].fn] = ZeroJacobian

\* C7 (as claimed): two calls of the same function running on two threads,
\* interleaved in any way, each return the point the call returns when it
\* runs alone.
C7_ConcurrentCallsIndependent ==
  \A t \in DOMAIN threads :
    (sched = "par" /\ Returned(t))
      => /\ threads[t].pc = "done"
         /\ threads[t].res =
              RunAlone(NewMachine(threads[t].fn, threads[t].k, threads[t].p),
                       WordsOf(1, FALSE)).f.res

\* C8: for every scalar k in [1, Order-1], point_multiply(k, G) and the
\* table-driven scalar_multiply(k) both return, and return the same point.
C8_PathsAgree ==
  (/\ sched = "seq" /\ Returned(1) /\ Returned(2)
   /\ threads[1].k >= 1 /\ threads[1].p = G)
    => /\ threads[1].pc = "done" /\ threads[2].pc = "done"
       /\ threads[1].res = threads[2].res
       /\ threads[1].res # Unset

C8_Witness ==
  /\ sched = "seq" /\ threads[1].pc = "done" /\ threads[2].pc = "done"
  /\ threads[1].k = Order - 1 /\ threads[1].p = G
  /\ threads[2].res = [x |-> Gx, y |-> Prime - Gy]

\* C10 (as claimed): the z that blinds satisfies 0 < z < Order.
C10_BlindingBelowOrder ==
  \A t \in DOMAIN threads :
    Blinded(t) => (0 < threads[t].z /\ threads[t].z < Order)

\* C10 (amended): the z that blinds satisfies 0 < z < Prime, and a candidate
\* left in jres.z while the draw goes on is one the loop rejects (0, or not
\* below the prime).
C10_BlindingBelowPrime ==
  \A t \in DOMAIN threads :
    /\ Blinded(t) => (0 < threads[t].z /\ threads[t].z < Prime)
    /\ (sched = "seq" /\ threads[t].pc = "draw")
         => (s_jres[threads[t].fn].z = 0 \/ s_jres[threads[t].fn].z >= Prime)

C10_Witness ==
  /\ sched = "seq" /\ threads[1].pc = "loop"
  /\ threads[1].z = Order /\ s_jres[PM].z = Order

\* ------------------------------------------------------------------------
\* ecdsa_der_to_sig (ecdsa.c:723-780).  Buffers are sequences of bytes; the
\* C index i is the element i + 1.
\* ------------------------------------------------------------------------
SIGNATURE_SIZE_IN_ASN1 == 64

At(buf, i) == buf[i + 1]

\* memset(dst + off, value, n)
memset(dst, off, value, n) ==
  [i \in 1..Len(dst) |-> IF off < i /\ i <= off + n THEN value ELSE dst[i]]

\* memcpy(dst + off, src + pos, n)
memcpy(dst, off, src, pos, n) ==
  [i \in 1..Len(dst) |-> IF off < i /\ i <= off + n THEN src[pos + i - off] ELSE dst[i]]

memzero(buf, n) == memset(buf, 0, 0, n)

\* mutant: an integer of 32 bytes or more is copied from its first byte
der_copy_int_from_start(out, off, d, pos, len) ==
  IF len < 32
  THEN memcpy(memset(out, off, 0, 32 - len), off + (32 - len), d, pos, len)
  ELSE memcpy(out, off, d, pos, 32)

\* one INTEGER of len bytes at d + pos into the 32 bytes at out + off
\* (ecdsa.c:745-751 and 767-773)
der_copy_int(out, off, d, pos, len) ==
  IF len < 32
  THEN memcpy(memset(out, off, 0, 32 - len), off + (32 - len), d, pos, len)
  ELSE memcpy(out, off, d, pos + (len - 32), 32)

ecdsa_der_to_sig(d, out) ==
  LET sig0 == memzero(out, SIGNATURE_SIZE_IN_ASN1)
      result0 == IF At(d, 0) # 48 THEN -1 ELSE 0                \* 0x30
      b1 == At(d, 1)
      result1 == IF At(d, 2) # 2 THEN -1 ELSE result0
      b2 == At(d, 3)
      sig1 == der_copy_int(sig0, 0, d, 4, b2)
      b3_mark_pos == 4 + b2
      result2 == IF At(d, b3_mark_pos) # 2 THEN -1 ELSE result1
      b3 == At(d, b3_mark_pos + 1)
      b3_pos == b3_mark_pos + 2
      sig2 == der_copy_int(sig1, 32, d, b3_pos, b3)
  IN IF b2 + b3 + 4 # b1
     THEN [sig |-> sig1, result |-> -1]
     ELSE [sig |-> IF result2 = -1 THEN memzero(sig2, SIGNATURE_SIZE_IN_ASN1) ELSE sig2,
           result |-> result2]

\* Inputs: SEQUENCE { INTEGER, INTEGER } with each tag right or wrong, the
\* outer length right or off by `delta`, integers of 0..DerMaxLen bytes.
DerMaxLen == 34

DerInt(len, lead) == [i \in 1..len |-> IF i = 1 THEN lead ELSE (7 * i + 1) % 256]

DerEncode(t0, delta, t1, r, t2, s) ==
  <<t0, (Len(r) + Len(s) + 4 + delta) % 256, t1, Len(r)>> \o r
    \o <<t2, Len(s)>> \o s

DerInputs ==
  { DerEncode(t0, delta, t1, DerInt(b2, lead), t2, DerInt(b3, lead)) :
      t0 \in {48, 49}, delta \in {0, 1}, t1 \in {2, 3}, t2 \in {2, 4},
      b2 \in 0..DerMaxLen, b3 \in 0..DerMaxLen, lead \in {0, 129} }

DerInit ==
  /\ der \in DerInputs
  /\ sig = [i \in 1..SIGNATURE_SIZE_IN_ASN1 |-> 170]     \* the caller's buffer
  /\ der_result = 0
  /\ der_pc = "call"
  /\ MulIdle /\ NegIdle /\ RecIdle /\ ValIdle /\ AddIdle /\ BlindIdle

DerCall ==
  /\ der_pc = "call"
  /\ sig' = ecdsa_der_to_sig(der, sig).sig
  /\ der_result' = ecdsa_der_to_sig(der, sig).result
  /\ der_pc' = "returned"
  /\ UNCHANGED <<der, mulVars, negVars, recVars, valVars, addVars, blindVars>>

DerNext == DerCall

SpecDer == DerInit /\ [][DerNext]_vars

\* what the claims say of an input
DerB1 == At(der, 1)
DerB2 == At(der, 3)
DerB3 == At(der, 4 + DerB2 + 1)
DerTagsRight == At(der, 0) = 48 /\ At(der, 2) = 2 /\ At(der, 4 + DerB2) = 2
DerLengthsConsistent == DerB1 = DerB2 + DerB3 + 4
DerR == SubSeq(der, 5, 4 + DerB2)
DerS == SubSeq(der, 4 + DerB2 + 3, 4 + DerB2 + 2 + DerB3)

\* an integer as 32 bytes: zero bytes in front of a short one, the last 32
\* bytes of a long one
Fixed32(c) ==
  [i \in 1..32 |-> IF i + Len(c) > 32 THEN c[i + Len(c) - 32] ELSE 0]

\* C1 (as claimed): a wrong tag or inconsistent lengths make the call report
\* failure with all 64 bytes of sig zero.
C1_FailureLeavesZeroes ==
  (der_pc = "returned" /\ (~DerTagsRight \/ ~DerLengthsConsistent))
    => /\ der_result # 0
       /\ sig = [i \in 1..SIGNATURE_SIZE_IN_ASN1 |-> 0]

\* C2: right tags and consistent lengths make the call return 0 with
\* sig[0..32) the first and sig[32..64) the second integer, each padded on
\* the left with zeroes or cut to its last 32 bytes.
C2_DecodesBothIntegers ==
  (der_pc = "returned" /\ DerTagsRight /\ DerLengthsConsistent)
    => /\ der_result = 0
       /\ sig = Fixed32(DerR) \o Fixed32(DerS)

\* a 33-byte integer with a leading 0x00 next to a short one
C2_Witness ==
  /\ der_pc = "returned" /\ DerTagsRight /\ DerLengthsConsistent
  /\ DerB2 = 33 /\ At(der, 4) = 0 /\ DerB3 = 31
  /\ der_result = 0
  /\ SubSeq(sig, 1, 32) = SubSeq(DerR, 2, 33)
  /\ sig[33] = 0 /\ sig[64] = DerS[31] /\ sig[64] # 0

\* ------------------------------------------------------------------------
\* conditional_negate called on its own: every a whose top limb passes the
\* assertion of line 156, both masks, both moduli of the curve
\* ------------------------------------------------------------------------
NegInit ==
  /\ \E cond \in {0, AllOnes}, a \in 0..(2 * TwoW - 1), m \in {Prime, Order} :
       /\ neg_in = [cond |-> cond, a |-> bn_limbs(a), prime |-> bn_limbs(m)]
       /\ neg_a = bn_limbs(a)
  /\ neg_pc = "call"
  /\ MulIdle /\ DerIdle /\ RecIdle /\ ValIdle /\ AddIdle /\ BlindIdle

NegCall ==
  /\ neg_pc = "call"
  /\ IF ~conditional_negate_ok(neg_a)
     THEN neg_a' = neg_a /\ neg_pc' = "abort"
     ELSE /\ neg_a' = conditional_negate_limbs(neg_in.cond, neg_a, neg_in.prime)
          /\ neg_pc' = IF conditional_negate_ok(neg_a') THEN "returned" ELSE "abort"
  /\ UNCHANGED <<neg_in, mulVars, derVars, recVars, valVars, addVars, blindVars>>

NegNext == NegCall

SpecNeg == NegInit /\ [][NegNext]_vars

NegModulus == bn_value(neg_in.prime)
NegArg == bn_value(neg_in.a)

\* C9 (as claimed): with cond = 0 a is left as it is; with cond all-ones and
\* a in range, a becomes (2*modulus - a) mod modulus, in [0, modulus).
C9_NegateIsCanonical ==
  (neg_pc = "returned" /\ NegArg < NegModulus)
    => /\ neg_in.cond = 0 => neg_a = neg_in.a
       /\ neg_in.cond = AllOnes
            => bn_value(neg_a) = (2 * NegModulus - NegArg) % NegModulus

\* C9 (amended): with cond = 0 every limb of a is left as it is; with cond
\* all-ones and a <= 2*modulus the call returns with a = 2*modulus - a,
\* limb by limb normalized but not reduced: congruent to -a, and above the
\* modulus whenever a was below it.
C9_NegateIsUnreduced ==
  /\ (neg_pc = "returned" /\ neg_in.cond = 0) => neg_a = neg_in.a
  /\ (neg_pc # "call" /\ neg_in.cond = AllOnes /\ NegArg <= 2 * NegModulus)
       => /\ neg_pc = "returned"
          /\ bn_value(neg_a) = 2 * NegModulus - NegArg
          /\ \A j \in LimbIdx : neg_a[j] <= LimbMask
          /\ neg_a[NLow] < TopLimit
          /\ NegArg < NegModulus => bn_value(neg_a) > NegModulus

C9_Witness ==
  /\ neg_pc = "returned" /\ neg_in.cond = AllOnes
  /\ NegModulus = Prime /\ NegArg = 1
  /\ bn_value(neg_a) = 2 * Prime - 1

\* ------------------------------------------------------------------------
\* Signature operations (ecdsa.c:621-721)
\* ------------------------------------------------------------------------
\* mutant: the root is kept whatever its parity
uncompress_coords_keep_root(odd, x) ==
  bn_sqrt(bn_add(bn_multiply(x, bn_subi(bn_multiply(x, x, Prime), -CurveA, Prime), Prime),
                 CurveB), Prime)

\* y from x and the parity bit (ecdsa.c:621-633)
uncompress_coords(odd, x) ==
  LET y1 == bn_multiply(x, x, Prime)                  \* x^2
      y2 == bn_subi(y1, -CurveA, Prime)               \* x^2 + a
      y3 == bn_multiply(x, y2, Prime)                 \* x^3 + ax
      y4 == bn_add(y3, CurveB)                        \* x^3 + ax + b
      y5 == bn_sqrt(y4, Prime)
  IN IF BitAnd(odd, 1) # BitAnd(bn_limbs(y5)[0], 1)
     THEN bn_subtract(Prime, y5)
     ELSE y5

\* mutant: the coordinates are not compared with the prime
ecdsa_validate_pubkey_no_range(pub) ==
  IF point_is_infinity(pub) THEN 0
  ELSE IF bn_is_equal(bn_mod(bn_multiply(pub.y, pub.y, Prime), Prime),
                      bn_mod(bn_addmod(bn_multiply(pub.x,
                               bn_subi(bn_multiply(pub.x, pub.x, Prime), -CurveA, Prime),
                               Prime), CurveB, Prime), Prime))
  THEN 1 ELSE 0

ecdsa_validate_pubkey(pub) ==
  IF point_is_infinity(pub) THEN 0
  ELSE IF ~bn_is_less(pub.x, Prime) \/ ~bn_is_less(pub.y, Prime) THEN 0
  ELSE
    LET y_2 == bn_mod(bn_multiply(pub.y, pub.y, Prime), Prime)
        x2 == bn_multiply(pub.x, pub.x, Prime)                     \* x^2
        x2a == bn_subi(x2, -CurveA, Prime)                         \* x^2 + a
        x3 == bn_multiply(pub.x, x2a, Prime)                       \* x^3 + ax
        x3_ax_b == bn_mod(bn_addmod(x3, CurveB, Prime), Prime)
    IN IF ~bn_is_equal(x3_ax_b, y_2) THEN 0 ELSE 1

\* the range checks on r and s (ecdsa.c:645-650): the value returned, or 0
recover_check_range(r, s) ==
  IF ~bn_is_less(r, Order) \/ bn_is_zero(r) THEN 1
  ELSE IF ~bn_is_less(s, Order) \/ bn_is_zero(s) THEN 1
  ELSE 0

\* mutant: the offset check returns a code of its own
recover_x_own_code(r, recid) ==
  IF BitAnd(recid, 2) # 0
  THEN IF ~bn_is_less(bn_add(r, Order), Prime)
       THEN [result |-> 2, x |-> bn_add(r, Order)]
       ELSE [result |-> 0, x |-> bn_add(r, Order)]
  ELSE [result |-> 0, x |-> r]

\* cp.x from r and the recovery id (ecdsa.c:652-658)
recover_x(r, recid) ==
  IF BitAnd(recid, 2) # 0
  THEN IF ~bn_is_less(bn_add(r, Order), Prime)
       THEN [result |-> 1, x |-> bn_add(r, Order)]
       ELSE [result |-> 0, x |-> bn_add(r, Order)]
  ELSE [result |-> 0, x |-> r]

\* Pub = r^-1 * (s*R - digest*G) (ecdsa.c:664-678); w holds the accepted
\* draws that blind the three multiplications
recover_point(r, s, digest, cp, w) ==
  LET e == bn_mod(bn_fast_mod(bn_subtractmod(Order, bn_read_be(digest), Order),
                              Order), Order)
      rinv == bn_inverse(r, Order)
  IN CHOOSE q \in { point_multiply(rinv, point_add(cp2, cp1), w[3]) :
                      cp1 \in {point_multiply(s, cp, w[1])},
                      cp2 \in {scalar_multiply(e, w[2])} } : TRUE

\* mutant: the format byte is written before the checks
recover_failed_after_write(pub, code) ==
  [result |-> code, pub_key |-> [pub EXCEPT ![1] = 4]]

\* a failure return (ecdsa.c:646, 649, 656, 662): pub_key as it was
recover_failed(pub, code) == [result |-> code, pub_key |-> pub]

ecdsa_recover_pub_from_sig(pub, sg, digest, recid, w) ==
  LET r == bn_read_be(SubSeq(sg, 1, BufLen))
      s == bn_read_be(SubSeq(sg, BufLen + 1, 2 * BufLen))
      off == recover_x(r, recid)
      cp == [x |-> off.x, y |-> uncompress_coords(BitAnd(recid, 1), off.x)]
  IN IF recover_check_range(r, s) # 0
     THEN recover_failed(pub, recover_check_range(r, s))
     ELSE IF off.result # 0 THEN recover_failed(pub, off.result)
     ELSE IF ecdsa_validate_pubkey(cp) = 0 THEN recover_failed(pub, 1)
     ELSE CHOOSE out \in { [result |-> 0,
                             pub_key |-> <<4>> \o bn_write_be(q.x) \o bn_write_be(q.y)] :
                            q \in {recover_point(r, s, digest, cp, w)} } : TRUE

\* ------------------------------------------------------------------------
\* ecdsa_recover_pub_from_sig called on signatures made from the signing
\* formulas and on raw (r, s, recid) triples
\* ------------------------------------------------------------------------
RecMaxKey == 2
RecMaxNonce == 40
RecMaxRaw == 8

\* draws generate_k_random accepts, one triple per call (one draw per
\* multiplication)
RecDraws == { <<WordsOf(1, FALSE), WordsOf(1, FALSE), WordsOf(1, FALSE)>>,
              <<WordsOf(1, TRUE), WordsOf(Order, FALSE), WordsOf(Prime - 1, FALSE)>> }

RecKeys == 1..RecMaxKey \cup {Order - 1}
RecNonces == 1..RecMaxNonce \cup {Order - 1}
RecDigests == {0, Order - 1, TwoW - 1}
RecRaw == 0..RecMaxRaw \cup {Prime - Order - 1, Prime - Order, Order - 1, Order, TwoW - 1}

\* signing from the formulas: R = k*G, r = R.x mod order,
\* s = k^-1 (D + r*d) mod order, v = parity of R.y + 2 * (R.x >= order)
SignR(k) == scalar_multiply(k, WordsOf(1, FALSE))
SignSmallR(R) == R.x % Order
SignS(d, k, D, r) == (bn_inverse(k, Order) * ((D + r * d) % Order)) % Order
SignV(R) == (R.y % 2) + (IF R.x >= Order THEN 2 ELSE 0)

PubKeyLen == 1 + 2 * BufLen
PubKeyAtEntry == [i \in 1..PubKeyLen |-> Pow2(ByteBits) - 1]

RecInput(d, r, s, D, v) ==
  [d |-> d, sig |-> bn_write_be(r) \o bn_write_be(s), digest |-> bn_write_be(D),
   recid |-> v, pub_key |-> PubKeyAtEntry]

RecInit ==
  /\ \/ \E k \in RecNonces : \E R \in {SignR(k)} :
        \E d \in RecKeys, D \in RecDigests : \E s \in {SignS(d, k, D, SignSmallR(R))} :
          /\ SignSmallR(R) # 0 /\ s # 0
          /\ rec_in = RecInput(d, SignSmallR(R), s, D, SignV(R))
     \/ \E r \in RecRaw, s \in {0, 1, Order - 1, Order}, v \in 0..3 :
          rec_in = RecInput(0, r, s, 1, v)
  /\ pub_key = rec_in.pub_key
  /\ rec_result = 0
  /\ rec_pc = "call"
  /\ MulIdle /\ DerIdle /\ NegIdle /\ ValIdle /\ AddIdle /\ BlindIdle

RecCall ==
  /\ rec_pc = "call"
  /\ \E w \in RecDraws :
       LET out == ecdsa_recover_pub_from_sig(pub_key, rec_in.sig, rec_in.digest,
                                             rec_in.recid, w)
       IN pub_key' = out.pub_key /\ rec_result' = out.result
  /\ rec_pc' = "returned"
  /\ UNCHANGED <<rec_in, mulVars, derVars, negVars, valVars, addVars, blindVars>>

RecNext == RecCall

SpecRec == RecInit /\ [][RecNext]_vars

\* what the claims say of an input
RecR == bn_read_be(SubSeq(rec_in.sig, 1, BufLen))
RecS == bn_read_be(SubSeq(rec_in.sig, BufLen + 1, 2 * BufLen))
RecRangeFails == RecR = 0 \/ RecR >= Order \/ RecS = 0 \/ RecS >= Order
RecOffsetFails == rec_in.recid \in {2, 3} /\ RecR + Order >= Prime
RecX == IF rec_in.recid \in {2, 3} THEN RecR + Order ELSE RecR
RecCurveFails ==
  ecdsa_validate_pubkey([x |-> RecX, y |-> uncompress_coords(rec_in.recid % 2, RecX)]) = 0
\* the first check that fails
RecFailingCheck ==
  IF RecRangeFails THEN "range"
  ELSE IF RecOffsetFails THEN "offset"
  ELSE IF RecCurveFails THEN "curve"
  ELSE "none"

EncodePoint(q) == <<4>> \o bn_write_be(q.x) \o bn_write_be(q.y)

\* C3: a signature made from d, k, D by the signing formulas recovers, with
\* its recovery id, to 0x04 || x || y of the point scalar_multiply(d).
C3_RecoversSignerKey ==
  (rec_pc = "returned" /\ rec_in.d # 0)
    => /\ rec_result = 0
       /\ pub_key = EncodePoint(scalar_multiply(rec_in.d, WordsOf(1, FALSE)))

\* recovery id bit 1 set: R.x was not below the order
C3_Witness ==
  /\ rec_pc = "returned" /\ rec_in.d = 2 /\ rec_in.recid \in {2, 3}
  /\ rec_result = 0
  /\ pub_key[1] = 4 /\ pub_key # rec_in.pub_key

\* one input failing each check
RecProbes ==
  { RecInput(0, 0, 1, 1, 0), RecInput(0, Prime - Order, 1, 1, 2),
    RecInput(0, 1, 1, 1, 0) }

ProbeResult(in) ==
  ecdsa_recover_pub_from_sig(in.pub_key, in.sig, in.digest, in.recid,
                             <<WordsOf(1, FALSE), WordsOf(1, FALSE), WordsOf(1, FALSE)>>).result

ProbeFailingCheck(in) ==
  LET r == bn_read_be(SubSeq(in.sig, 1, BufLen))
      x == IF in.recid \in {2, 3} THEN r + Order ELSE r
  IN IF r = 0 \/ r >= Order THEN "range"
     ELSE IF in.recid \in {2, 3} /\ x >= Prime THEN "offset"
     ELSE IF ecdsa_validate_pubkey([x |-> x, y |-> uncompress_coords(in.recid % 2, x)]) = 0
     THEN "curve"
     ELSE "none"

\* C4 (as claimed): two calls that fail at different checks return different
\* values.
C4_FailuresDistinguished ==
  (rec_pc = "returned" /\ RecFailingCheck # "none")
    => \A in \in RecProbes :
         (ProbeFailingCheck(in) \notin {"none", RecFailingCheck})
           => ProbeResult(in) # rec_result

\* C4 (amended): the call returns 1 whichever check fails, and 0 when none
\* does; the value does not tell the checks apart.
C4_FailuresReturnOne ==
  rec_pc = "returned"
    => /\ RecFailingCheck # "none" => rec_result = 1
       /\ RecFailingCheck = "none" => rec_result = 0

C4_Witness ==
  /\ rec_pc = "returned" /\ RecFailingCheck = "offset" /\ rec_result = 1

\* C5: when r or s is zero or not below the order, or the offset x is not
\* below the prime, or the uncompressed point is rejected, the call fails and
\* pub_key is what it was at entry; so it is after every failing call.
C5_FailureLeavesPubKey ==
  rec_pc = "returned"
    => /\ (RecRangeFails \/ RecOffsetFails \/ RecCurveFails) => rec_result # 0
       /\ rec_result # 0 => pub_key = rec_in.pub_key

C5_Witness ==
  /\ rec_pc = "returned" /\ RecFailingCheck = "curve"
  /\ rec_result # 0 /\ pub_key = rec_in.pub_key

\* ------------------------------------------------------------------------
\* ecdsa_validate_pubkey called on its own: points on and off the curve,
\* coordinates below, at and above the prime, the point at infinity
\* ------------------------------------------------------------------------
ValMaxX == 40
ValMaxY == 8

ValXs == 0..ValMaxX \cup {Prime - 1, Prime, Prime + 2, TwoW - 1}
\* the two roots uncompress_coords gives for x, the same plus the prime,
\* and small and boundary values
ValYs(x) ==
  {uncompress_coords(0, x), uncompress_coords(1, x),
   uncompress_coords(0, x) + Prime, uncompress_coords(1, x) + Prime}
    \cup 0..ValMaxY \cup {Prime - 1, Prime, TwoW - 1}

ValInit ==
  /\ \E x \in ValXs : \E y \in ValYs(x) : val_in = [x |-> x, y |-> y]
  /\ val_pub = val_in
  /\ val_result = 0
  /\ val_pc = "call"
  /\ MulIdle /\ DerIdle /\ NegIdle /\ RecIdle /\ AddIdle /\ BlindIdle

\* pub is const: the call works on its copies y_2 and x3_ax_b
ValCall ==
  /\ val_pc = "call"
  /\ val_result' = ecdsa_validate_pubkey(val_pub)
  /\ val_pc' = "returned"
  /\ UNCHANGED <<val_in, val_pub, mulVars, derVars, negVars, recVars, addVars, blindVars>>

ValNext == ValCall

SpecVal == ValInit /\ [][ValNext]_vars

\* y^2 = x^3 + a*x + b (mod prime), on the integers
OnCurve(x, y) ==
  LET xm == x % Prime
      ym == y % Prime
      x3 == (((xm * xm) % Prime) * xm) % Prime
      ax == ((CurveA % Prime) * xm) % Prime
  IN (ym * ym) % Prime = (x3 + ax + CurveB) % Prime

ValExpected ==
  IF /\ ~(val_in.x = 0 /\ val_in.y = 0)
     /\ val_in.x < Prime /\ val_in.y < Prime
     /\ OnCurve(val_in.x, val_in.y)
  THEN 1 ELSE 0

\* C11: ecdsa_validate_pubkey returns 1 exactly when the point is not
\* (0, 0), both coordinates are below the prime and the curve equation
\* holds, returns 0 otherwise, and leaves the point as it was.
C11_ValidatesExactly ==
  val_pc = "returned" => (val_result = ValExpected /\ val_pub = val_in)

\* a point the equation accepts whose y is not below the prime: rejected
C11_Witness ==
  /\ val_pc = "returned" /\ val_result = 0
  /\ val_in.x < Prime /\ val_in.y >= Prime /\ OnCurve(val_in.x, val_in.y)

\* ------------------------------------------------------------------------
\* The point at infinity in point_add, point_multiply and scalar_multiply:
\* point_add(cp1, cp2) on its own, next to point_multiply(k, P) followed by
\* scalar_multiply(k)
\* ------------------------------------------------------------------------
IdentMaxX == 12
IdentMaxK == 1

\* the points of the curve with x up to IdentMaxX, the point at infinity,
\* and pairs that are not on the curve or not reduced
IdentCurvePoints ==
  { pt \in { [x |-> x, y |-> uncompress_coords(odd, x)] : x \in 0..IdentMaxX, odd \in {0, 1} } :
      ecdsa_validate_pubkey(pt) = 1 }
IdentPoints ==
  IdentCurvePoints \cup {Infinity, G, [x |-> 1, y |-> 1], [x |-> 0, y |-> 1],
                         [x |-> Prime, y |-> Prime + 1], [x |-> TwoW - 1, y |-> 0]}

IdentInit ==
  /\ \E P \in IdentPoints, Q \in {Infinity, G, [x |-> Gx, y |-> Prime - Gy]},
        left \in BOOLEAN :
       add_in = IF left THEN [cp1 |-> Q, cp2 |-> P] ELSE [cp1 |-> P, cp2 |-> Q]
  /\ add_cp2 = add_in.cp2
  /\ add_pc = "call"
  /\ MulStatics
  /\ sched = "seq"
  /\ \E k \in 0..IdentMaxK, P \in IdentPoints :
       /\ k = 0 \/ P \in IdentCurvePoints
       /\ threads = [t \in Threads |-> IF t = 1 THEN NewFrame(PM, k, P)
                                        ELSE NewFrame(SM, k, G)]
  /\ DerIdle /\ NegIdle /\ RecIdle /\ ValIdle /\ BlindIdle

AddCall ==
  /\ add_pc = "call"
  /\ add_cp2' = point_add(add_in.cp1, add_cp2)
  /\ add_pc' = "returned"
  /\ UNCHANGED <<add_in, mulVars, derVars, negVars, recVars, valVars, blindVars>>

IdentNext == AddCall \/ MulNext

SpecIdent == IdentInit /\ [][IdentNext]_vars

\* C12: point_add with cp1 at infinity leaves cp2 as it was, point_add with
\* cp2 at infinity makes cp2 equal to cp1, and point_multiply(0, P) and
\* scalar_multiply(0) return the point at infinity.
C12_InfinityIsIdentity ==
  /\ (add_pc = "returned" /\ add_in.cp1 = Infinity) => add_cp2 = add_in.cp2
  /\ (add_pc = "returned" /\ add_in.cp2 = Infinity) => add_cp2 = add_in.cp1
  /\ \A t \in DOMAIN threads :
       (Returned(t) /\ threads[t].k = 0)
         => (threads[t].pc = "done" /\ threads[t].res = Infinity)

C12_Witness ==
  /\ add_pc = "returned" /\ add_in.cp2 = Infinity
  /\ add_in.cp1 # Infinity /\ add_in.cp1 # G /\ add_cp2 = add_in.cp1
  /\ threads[1].k = 0 /\ threads[1].p \notin {G, Infinity}
  /\ threads[1].pc = "done" /\ threads[2].pc = "done"
  /\ threads[1].res = Infinity /\ threads[2].res = Infinity

\* ------------------------------------------------------------------------
\* The signed digits of point_multiply, read off the frame of thread 1 of
\* SpecMul after each window is extracted
\* ------------------------------------------------------------------------
\* the biased scalar the claim names: k + 2^ScalarBits, less the order when
\* k is even
RecodedA(k) == k + TwoW - (IF k % 2 = 0 THEN Order ELSE 0)

\* the digit a window stands for: magnitude from the table index, sign from
\* the sign mask
DigitOf(sign, bits) == (IF sign = 0 THEN 1 ELSE -1) * (2 * Shr(bits, 1) + 1)

\* digit i of a on the integers: the nibble, made odd, less 16 when the bit
\* above the nibble is clear
DigitAt(a, i) ==
  LET w == (a \div Pow2(4 * i)) % 32
  IN (w % 16) + (1 - (w % 2)) - (IF w >= 16 THEN 0 ELSE 16)

RECURSIVE DigitSum(_, _)
DigitSum(a, n) ==
  IF n = 0 THEN 0 ELSE DigitSum(a, n - 1) + DigitAt(a, n - 1) * Pow2(4 * (n - 1))

\* the position of the window the frame holds
DigitPosition(f) == IF f.pc = "draw" THEN NDigits - 1 ELSE f.i + 1

HoldsDigit(f) == f.pc \in {"draw", "loop", "final"} \/ (f.pc = "done" /\ f.nz)

\* C13: in point_multiply the static a is k + 2^ScalarBits (less the order
\* for even k), odd and in (0, 2^(ScalarBits+1)); every digit the loop
\* extracts is odd, of absolute value at most 15, and is the digit of a at
\* its position; the NDigits digits sum to a - 2^ScalarBits (the digit above
\* them is the sentinel 1), which is congruent to k modulo the order.
C13_SignedWindowRecoding ==
  \A t \in DOMAIN threads :
    (sched = "seq" /\ threads[t].fn = PM) =>
      LET f == threads[t]
          a == RecodedA(f.k)
          d == DigitOf(f.sign, f.bits)
      IN /\ f.pc \in {"check", "draw", "loop", "final"}
              => /\ bn_value(s_a[PM]) = a
                 /\ a % 2 = 1 /\ 0 < a /\ a < 2 * TwoW
         /\ HoldsDigit(f)
              => /\ d % 2 = 1 /\ -15 <= d /\ d <= 15
                 /\ d = DigitAt(a, DigitPosition(f))
         /\ f.pc # "entry"
              => /\ DigitSum(a, NDigits) + Pow2(4 * NDigits) = a
                 /\ (a - TwoW - f.k + Order) % Order = 0
         /\ f.pc # "abort"

\* an even scalar, a negative digit in the middle position
C13_Witness ==
  /\ sched = "seq" /\ threads[1].fn = PM /\ threads[1].pc = "loop"
  /\ threads[1].k % 2 = 0 /\ threads[1].k > 0
  /\ threads[1].i = 0 /\ threads[1].sign = AllOnes
  /\ DigitOf(threads[1].sign, threads[1].bits) = DigitAt(RecodedA(threads[1].k), 1)
  /\ DigitAt(RecodedA(threads[1].k), 1) < 0

\* ------------------------------------------------------------------------
\* Blinding: curve_to_jacobian followed by jacobian_to_curve on its own,
\* next to two calls of point_multiply(k, P), one after the other, each with
\* its own draws
\* ------------------------------------------------------------------------
BlindMaxX == 5
BlindMaxK == 2
BlindMaxZ == 4

BlindCurvePoints ==
  { pt \in { [x |-> x, y |-> uncompress_coords(odd, x)] : x \in 0..BlindMaxX, odd \in {0, 1} } :
      ecdsa_validate_pubkey(pt) = 1 }
\* also the point at infinity, a pair off the curve and a pair not reduced
BlindPoints ==
  BlindCurvePoints \cup {Infinity, [x |-> 1, y |-> 1], [x |-> Gx + Prime, y |-> Gy]}
BlindScalars == 0..BlindMaxK \cup {Order - 1}
BlindDraws ==
  { WordsOf(z, FALSE) : z \in 0..BlindMaxZ \cup {Order, Prime - 1, Prime, TwoW - 1} }
    \cup { WordsOf(Prime - 2, TRUE) }

BlindInit ==
  /\ \E P \in BlindPoints, k \in BlindScalars :
       /\ blind_in = P
       /\ threads = [t \in Threads |->
                       NewFrame(PM, k, IF P \in BlindCurvePoints THEN P ELSE G)]
  /\ blind_jp = ZeroJacobian
  /\ blind_out = Unset
  /\ blind_pc = "call"
  /\ MulStatics
  /\ sched = "seq"
  /\ DerIdle /\ NegIdle /\ RecIdle /\ ValIdle /\ AddIdle

\* curve_to_jacobian: one round of generate_k_random on jp.z, and the rest
\* of the function once a candidate is accepted
BlindDraw ==
  /\ blind_pc = "call"
  /\ \E words \in BlindDraws :
       LET z == bn_value(random_candidate(words))
       IN IF random_rejected(z, Prime)
          THEN /\ blind_jp' = [blind_jp EXCEPT !.z = z]
               /\ blind_pc' = "call"
          ELSE /\ blind_jp' = curve_to_jacobian(blind_in, z, Prime)
               /\ blind_pc' = "drawn"
  /\ UNCHANGED <<blind_in, blind_out, mulVars, derVars, negVars, recVars, valVars, addVars>>

BlindBack ==
  /\ blind_pc = "drawn"
  /\ blind_out' = jacobian_to_curve(blind_jp, Prime)
  /\ blind_pc' = "returned"
  /\ UNCHANGED <<blind_in, blind_jp, mulVars, derVars, negVars, recVars, valVars, addVars>>

BlindNext == BlindDraw \/ BlindBack \/ MulNext

SpecBlind == BlindInit /\ [][BlindNext]_vars

\* C14: two calls of point_multiply(k, P), blinded each with the z its own
\* draws gave it, return the same point; and jacobian_to_curve gives back
\* the point curve_to_jacobian was given, its coordinates reduced below the
\* prime, for every z the draw accepts.
C14_BlindingKeepsResults ==
  /\ (sched = "seq" /\ Returned(1) /\ Returned(2))
       => /\ threads[1].pc = "done" /\ threads[2].pc = "done"
          /\ threads[1].res = threads[2].res
  /\ blind_pc \in {"drawn", "returned"} => (0 < blind_jp.z /\ blind_jp.z < Prime)
  /\ blind_pc = "returned"
       => blind_out = [x |-> blind_in.x % Prime, y |-> blind_in.y % Prime]

\* two calls blinded with different z, and a round trip with z = order
C14_Witness ==
  /\ sched = "seq" /\ threads[1].pc = "done" /\ threads[2].pc = "done"
  /\ threads[1].k = Order - 1 /\ threads[1].p # G
  /\ threads[1].z = 1 /\ threads[2].z = Prime - 1
  /\ threads[1].res = threads[2].res /\ threads[1].res \notin {Infinity, Unset}
  /\ blind_pc = "returned" /\ blind_jp.z = Order
  /\ blind_in = threads[1].p /\ blind_out = blind_in

=============================================================================
